---- MODULE Spec2Model ----
(***************************************************************************)
(* Model of the two Ansible modules cs_domain (src/cs_domain.py) and       *)
(* cs_iso (src/cs_iso.py): one invocation of a module is a run of main(),  *)
(* stepping from one remote API call to the next.  A session is two        *)
(* successive invocations with the same parameters against the same        *)
(* remote cloud, so that a second run (idempotence) and a dry run followed *)
(* by a live run can be compared.                                          *)
(*                                                                         *)
(* Python values: a string is a sequence of one-character strings, None is *)
(* the one-element sequence <<"None">>, a dict is a function from key      *)
(* names to values (a key that the API omits is outside its DOMAIN), and   *)
(* an optional dict (None or a dict) is a sequence of length 0 or 1.       *)
(*                                                                         *)
(* Each method is modelled statement by statement.  A Python exception     *)
(* that is not a CloudStackException (TypeError, NameError, KeyError) is   *)
(* not caught by main() and ends the invocation in pc = "crashed";         *)
(* module.fail_json ends it in pc = "failed"; module.exit_json in "done".  *)
(* cs_domain.py line 520 lacks its colon and lines 517-527 are indented    *)
(* unevenly; the block is read as the if-statement its layout shows.  The  *)
(* default argument of _get_domain_internal (line 449) is read as the      *)
(* 'path' parameter taken at call time.                                    *)
(***************************************************************************)
EXTENDS Integers, Sequences, FiniteSets, TLC

VARIABLES
  kind,          \* which module is invoked: "domain" (cs_domain) or "iso" (cs_iso)
  params,        \* module.params
  modes,         \* module.check_mode of the first and of the second invocation
  run,           \* 1 or 2: the invocation of the session that is running
  pc,            \* position of the invocation in main()
  msg,           \* message of fail_json, or of the uncaught exception
  result,        \* self.result
  self_domain,   \* self.domain  (entity cache)
  self_account,  \* self.account
  self_project,  \* self.project
  self_zone,     \* self.zone
  self_os_type,  \* self.os_type
  self_hypervisor, \* self.hypervisor (the name, or None)
  self_iso,      \* self.iso
  ret,           \* the local 'domain' / 'iso' that main() hands to get_result
  res,           \* the response of the last mutating call
  calls,         \* remote calls issued by this invocation, in order
  remote,        \* state of the cloud
  hist           \* how the first invocation of the session ended

vars == <<kind, params, modes, run, pc, msg, result, self_domain,
          self_account, self_project, self_zone, self_os_type,
          self_hypervisor, self_iso,
          ret, res, calls, remote, hist>>

caches == <<self_domain, self_account, self_project, self_zone,
            self_os_type, self_hypervisor, self_iso>>

(***************************************************************************)
(* Bounds.                                                                 *)
(***************************************************************************)
\* Longest ISO list the remote holds at the start of a session.
MaxIsos == 2

(***************************************************************************)
(* Python strings.                                                         *)
(***************************************************************************)
None == <<"None">>

\* str.lower() on one character of the alphabet used by the model
LowerChar(c) ==
  CASE c = "R" -> "r"
    [] c = "O" -> "o"
    [] c = "T" -> "t"
    [] c = "A" -> "a"
    [] c = "B" -> "b"
    [] c = "P" -> "p"
    [] c = "Z" -> "z"
    [] OTHER -> c

\* str.lower()
Lower(s) == [i \in 1..Len(s) |-> LowerChar(s[i])]

\* str.startswith(p)
StartsWith(s, p) == Len(s) >= Len(p) /\ SubSeq(s, 1, Len(p)) = p

\* str.endswith(p)
EndsWith(s, p) == Len(s) >= Len(p) /\ SubSeq(s, Len(s) - Len(p) + 1, Len(s)) = p

\* str.split('/'): the list of segments between separators
RECURSIVE SplitFrom(_, _, _)
SplitFrom(s, i, cur) ==
  IF i > Len(s) THEN <<cur>>
  ELSE IF s[i] = "/" THEN <<cur>> \o SplitFrom(s, i + 1, <<>>)
  ELSE SplitFrom(s, i + 1, Append(cur, s[i]))

Split(s) == SplitFrom(s, 1, <<>>)

\* '/'.join(list)
RECURSIVE Join(_)
Join(l) ==
  IF Len(l) = 0 THEN <<>>
  ELSE IF Len(l) = 1 THEN l[1]
  ELSE l[1] \o <<"/">> \o Join(Tail(l))

\* Python truthiness of a string-or-None value ("if not value")
Truthy(v) == v # None /\ v # <<>>

\* string constants
s_root == <<"r", "o", "o", "t">>
s_ROOT == <<"R", "O", "O", "T">>
s_a    == <<"a">>
s_b    == <<"b">>

(***************************************************************************)
(* The remote cloud: what the listing calls return.                        *)
(***************************************************************************)
NetDomains == {<<"o", "l", "d">>, <<"n", "e", "w">>}

DomRoot == [id |-> <<"d", "0">>, name |-> s_ROOT, path |-> s_ROOT]
DomA    == [id |-> <<"d", "1">>, name |-> s_a, path |-> s_ROOT \o <<"/">> \o s_a]
DomAB   == [id |-> <<"d", "2">>, name |-> s_b,
            path |-> s_ROOT \o <<"/">> \o s_a \o <<"/">> \o s_b]

\* a domain dict with or without the optional 'networkdomain' key
WithNet(d) == {d} \cup {("networkdomain" :> n) @@ d : n \in NetDomains}

\* the domain lists a session of cs_domain can start from
DomainLists ==
  {<<DomRoot>>}
    \cup {<<DomRoot, a>> : a \in WithNet(DomA)}
    \cup {<<DomRoot, a, DomAB>> : a \in WithNet(DomA)}

(***************************************************************************)
(* Module parameters of cs_domain.                                         *)
(***************************************************************************)
Paths ==
  { s_a,
    <<"A">>,
    s_a \o <<"/">> \o s_b,
    s_ROOT \o <<"/">> \o s_a,
    <<"/">> \o s_a,
    <<"/">> \o s_ROOT \o <<"/">> \o s_a,
    s_a \o <<"/">> }

DomainParams ==
  [path : Paths, network_domain : NetDomains \cup {None},
   state : {"present", "absent"}, poll_async : {TRUE}]

(***************************************************************************)
(* The remote cloud as cs_iso sees it, and the parameters of cs_iso.       *)
(***************************************************************************)
Zone1 == [id |-> <<"1", "z">>, name |-> <<"Z", "a">>]
Zone2 == [id |-> <<"2", "z">>, name |-> <<"Z", "b">>]
OsType1 == [id |-> <<"1", "o">>, description |-> <<"O", "a">>]
Account1 == [id |-> <<"1", "c">>, name |-> <<"a", "c">>, domainid |-> DomA["id"]]
Project1 == [id |-> <<"1", "p">>, name |-> <<"P", "a">>]
Hypervisor1 == [name |-> <<"T", "a">>]
Hypervisor2 == [name |-> <<"T", "b">>]

IsoNames == {<<"n", "1">>, <<"n", "2">>}
Checksums == {<<"c", "1">>, <<"c", "2">>}
\* the checksum the cloud computes for an ISO registered without one
ContentChecksum == <<"c", "0">>

\* ISOs that may already exist: name and checksum
IsoKinds == { <<<<"n", "1">>, <<"c", "1">>>>, <<<<"n", "1">>, <<"c", "2">>>>,
              <<<<"n", "2">>, <<"c", "1">>>> }

IdDigit(i) == <<"1", "2", "3", "4", "5">>[i]

IsoDict(i, k) == [id |-> <<"i", IdDigit(i)>>, name |-> k[1],
                  displaytext |-> k[1], checksum |-> k[2]]

\* the ISO lists a session of cs_iso can start from
IsoLists ==
  UNION { { [i \in 1..n |-> IsoDict(i, f[i])] : f \in [1..n -> IsoKinds] }
          : n \in 0..MaxIsos }

\* the entity selectors 'zone', 'domain', 'account', 'project'
Selectors(z, d, a, p) == [zone |-> z, domain |-> d, account |-> a, project |-> p]

IsoSelectors ==
  { Selectors(None, None, None, None),
    Selectors(<<"Z", "b">>, None, None, None),
    Selectors(<<"Z", "x">>, None, None, None),
    Selectors(None, s_a, None, None),
    Selectors(None, <<"x">>, None, None),
    Selectors(None, s_a, <<"a", "c">>, None),
    Selectors(None, s_a, <<"a", "x">>, None),
    Selectors(None, None, <<"a", "c">>, None),
    Selectors(None, None, None, <<"p", "a">>),
    Selectors(None, None, None, <<"p", "x">>) }

IsoOwnParams ==
  [name : IsoNames, url : {None, <<"u">>},
   os_type : {None, <<"O", "a">>, <<"O", "x">>},
   checksum : Checksums \cup {None}, bootable : BOOLEAN,
   state : {"present", "absent"},
   is_ready : {FALSE}, iso_filter : {<<"s", "e", "l", "f">>},
   is_featured : {FALSE}, is_dynamically_scalable : {FALSE}]

IsoParams == { p @@ sel : p \in IsoOwnParams, sel \in IsoSelectors }

\* listAccounts(name, domainid): the accounts of that name in that domain
ListAccounts(accounts, args) ==
  SelectSeq(accounts, LAMBDA a : a["name"] = args["name"]
                                 /\ a["domainid"] = args["domainid"])

\* listIsos: the ISOs of that name when a name filter is sent, else all
ListIsos(isos, args) ==
  IF "name" \in DOMAIN args
    THEN SelectSeq(isos, LAMBDA i : i["name"] = args["name"])
    ELSE isos

\* the ISO the cloud creates for registerIso(args)
RegisteredIso(args) ==
  [id |-> <<"i", "n">>, name |-> args["name"], displaytext |-> args["displaytext"],
   checksum |-> IF args["checksum"] = None THEN ContentChecksum
                ELSE args["checksum"]]

(***************************************************************************)
(* AnsibleCloudStack helpers.                                              *)
(***************************************************************************)
\* has_changed without the "Skip None values" test of lines 172-173
has_changed_none_counts(want_dict, current_dict, only_keys) ==
  \E key \in DOMAIN want_dict :
    /\ ~(only_keys # {} /\ key \notin only_keys)
    /\ key \in DOMAIN current_dict
    /\ want_dict[key] # current_dict[key]

\* has_changed: some wanted key (within only_keys when given) has a value
\* that is not None, occurs in current_dict and differs from it.  only_keys
\* = {} stands for None.  Every value compared here is a str, for which the
\* str() coercion of line 181 leaves current_dict as it is.
has_changed(want_dict, current_dict, only_keys) ==
  \E key \in DOMAIN want_dict :
    /\ ~(only_keys # {} /\ key \notin only_keys)
    /\ want_dict[key] # None
    /\ key \in DOMAIN current_dict
    /\ want_dict[key] # current_dict[key]

\* _get_by_key, lines 189-194, for a key the dict carries
_get_by_key(key, d) == d[key]

\* a remote call as it is logged
Call(api, args) == [api |-> api, args |-> args]

MutatingApis == {"createDomain", "updateDomain", "deleteDomain",
                 "registerIso", "deleteIso", "createTags", "deleteTags"}

Terminal == {"done", "failed", "crashed"}

\* module.fail_json(msg=fmt % arg)
Msg(fmt, arg) == [fmt |-> fmt, arg |-> arg]
NoMsg == Msg("", None)

(***************************************************************************)
(* AnsibleCloudStackDomain.                                                *)
(***************************************************************************)
\* the path as it is compared, without the path.lower() of line 453
NormPath_no_lower(path) ==
  LET p == path IN
    IF StartsWith(p, <<"/">>) /\ ~StartsWith(p, <<"/">> \o s_root \o <<"/">>)
      THEN s_root \o p
    ELSE IF ~StartsWith(p, s_root \o <<"/">>)
      THEN s_root \o <<"/">> \o p
    ELSE p

\* _get_domain_internal, lines 453-458: the path as it is compared
NormPath(path) ==
  LET p == Lower(path) IN
    IF StartsWith(p, <<"/">>) /\ ~StartsWith(p, <<"/">> \o s_root \o <<"/">>)
      THEN s_root \o p
    ELSE IF ~StartsWith(p, s_root \o <<"/">>)
      THEN s_root \o <<"/">> \o p
    ELSE p

\* the first element of a list that satisfies P, as an optional value
\* ("for x in list: if P(x): return x")
FirstWith(l, P(_)) ==
  LET idx == {i \in 1..Len(l) : P(l[i])}
  IN IF idx = {} THEN <<>>
     ELSE <<l[CHOOSE i \in idx : \A j \in idx : i <= j]>>

\* _get_domain_internal, lines 460-466: first listed domain with that path
_get_domain_internal(path, domains) ==
  LET p == NormPath(path)
      Match(d) == Lower(p) = Lower(d["path"])
  IN FirstWith(domains, Match)


\* an invocation that never sees check mode
check_mode_ignored == FALSE

\* module.check_mode of the running invocation
check_mode == modes[run]

\* present_domain, line 498: the value returned to main(), given the
\* snapshot looked up and the one _create_domain/_update_domain returned
present_domain_return(looked_up, from_call) == looked_up

\* get_result that starts from a fresh result dict
get_result_fresh(resource, keymap) ==
  IF resource = <<>> THEN [changed |-> FALSE]
  ELSE LET d == resource[1]
           present == {m \in keymap : m[1] \in DOMAIN d}
           names == {m[2] : m \in present}
       IN [k \in {"changed"} \cup names |->
             IF k \in names
               THEN d[(CHOOSE m \in present : m[2] = k)[1]]
               ELSE FALSE]

\* get_result: copy the keys of 'keymap' that the resource carries into
\* self.result under their reported names
get_result(resource, keymap) ==
  IF resource = <<>> THEN result
  ELSE LET d == resource[1]
           present == {m \in keymap : m[1] \in DOMAIN d}
           names == {m[2] : m \in present}
       IN [k \in DOMAIN result \cup names |->
             IF k \in names
               THEN d[(CHOOSE m \in present : m[2] = k)[1]]
               ELSE result[k]]

\* AnsibleCloudStackDomain.get_result, lines 547-559
DomainResultKeys ==
  { <<"name", "name">>, <<"path", "path">>,
    <<"parentdomainname", "parent_domain">>, <<"state", "state">>,
    <<"networkdomain", "network_domain">> }

\* the remote's domain list after updateDomain(id, networkdomain)
UpdatedDomains(domains, args) ==
  [i \in 1..Len(domains) |->
     IF domains[i]["id"] = args["id"] /\ args["networkdomain"] # None
       THEN ("networkdomain" :> args["networkdomain"]) @@ domains[i]
       ELSE domains[i]]

\* the remote's list after a delete call for 'id'
Without(l, id) == SelectSeq(l, LAMBDA d : d["id"] # id)

\* the response of an asynchronous call carries a job id
\* a response that carries an error text
FaultResponse == [errortext |-> <<"e">>]

JobResponses == { [jobid |-> <<"j", "1">>], [success |-> <<"t">>] }

\* get_domain (lines 475-479) with _get_domain_internal (lines 449-466)
Domain_get_domain ==
  /\ kind = "domain"
  /\ pc = "main"
  /\ IF EndsWith(params.path, <<"/">>)
       THEN /\ pc' = "failed"
            /\ msg' = Msg("Path must not end with /", None)
            /\ UNCHANGED <<self_domain, ret, calls>>
       ELSE LET found == _get_domain_internal(params.path, remote.domains) IN
            /\ calls' = Append(calls, Call("listDomains", [listall |-> TRUE]))
            /\ self_domain' = found
            /\ ret' = found
            /\ pc' = IF params.state = "absent" THEN "absent_domain"
                     ELSE IF found = <<>> THEN "_create_domain"
                     ELSE "_update_domain"
            /\ msg' = msg
  /\ UNCHANGED <<kind, self_hypervisor, params, modes, run, result, self_account, self_project,
                 self_zone, self_os_type, self_iso, res, remote, hist>>

\* get_name, lines 469-472: the one-element list [-1:] of the path's segments
get_name(path) ==
  LET l == Split(path) IN SubSeq(l, Len(l), Len(l))

\* get_parent_domain, lines 483-485: the path with its last segment cut off
ParentPath(path) ==
  LET l == Split(path) IN Join(SubSeq(l, 1, Len(l) - 1))

\* _create_domain, lines 501-505: changed is set, then self.get_name() is
\* called on a method declared without 'self' (line 469), which raises
\* TypeError before any argument of createDomain is built
_create_domain ==
  /\ pc = "_create_domain"
  /\ result' = [result EXCEPT !["changed"] = TRUE]
  /\ pc' = "crashed"
  /\ msg' = Msg("TypeError: get_name() takes no arguments (1 given)", None)
  /\ UNCHANGED <<kind, params, modes, run, caches, ret, res, calls, remote, hist>>

\* _update_domain, lines 516-527, and the return of present_domain
_update_domain ==
  /\ pc = "_update_domain"
  /\ LET domain == ret[1]
         args == [id |-> domain["id"], networkdomain |-> params.network_domain]
     IN IF has_changed(args, domain, {})
          THEN /\ result' = [result EXCEPT !["changed"] = TRUE]
               /\ IF ~check_mode
                    THEN /\ calls' = Append(calls, Call("updateDomain", args))
                         /\ \E fault \in BOOLEAN :
                              IF fault
                                THEN /\ res' = <<FaultResponse>>
                                     /\ pc' = "failed"
                                     /\ msg' = Msg("Failed: '%s'", <<"e">>)
                                     /\ UNCHANGED <<remote, ret>>
                                ELSE LET new == UpdatedDomains(remote.domains, args)
                                         upd == FirstWith(new,
                                                  LAMBDA d : d["id"] = args["id"])
                                     IN /\ remote' = [remote EXCEPT !.domains = new]
                                        /\ res' = <<[domain |-> upd[1]]>>
                                        /\ ret' = present_domain_return(ret, upd)
                                        /\ pc' = "get_result"
                                        /\ msg' = msg
                    ELSE /\ pc' = "get_result"
                         /\ UNCHANGED <<calls, res, remote, ret, msg>>
          ELSE /\ pc' = "get_result"
               /\ UNCHANGED <<result, calls, res, remote, ret, msg>>
  /\ UNCHANGED <<kind, params, modes, run, caches, hist>>

\* absent_domain, lines 530-544: after deleteDomain the response is tested
\* with "'errortext' in account", and 'account' is not a name of this
\* scope, which raises NameError before the job is polled
absent_domain ==
  /\ pc = "absent_domain"
  /\ IF ret # <<>>
       THEN /\ result' = [result EXCEPT !["changed"] = TRUE]
            /\ IF ~check_mode
                 THEN /\ calls' = Append(calls,
                                    Call("deleteDomain", [id |-> ret[1]["id"]]))
                      /\ \E r \in JobResponses \cup {FaultResponse} :
                           /\ res' = <<r>>
                           /\ remote' = IF r = FaultResponse THEN remote
                                        ELSE [remote EXCEPT
                                          !.domains = Without(@, ret[1]["id"])]
                      /\ pc' = "crashed"
                      /\ msg' = Msg("NameError: global name 'account' is not defined",
                                    None)
                 ELSE /\ pc' = "get_result"
                      /\ UNCHANGED <<calls, res, remote, msg>>
       ELSE /\ pc' = "get_result"
            /\ UNCHANGED <<result, calls, res, remote, msg>>
  /\ UNCHANGED <<kind, params, modes, run, caches, ret, hist>>

\* main(), lines 595-600: get_result and exit_json
Domain_get_result ==
  /\ kind = "domain"
  /\ pc = "get_result"
  /\ result' = get_result(ret, DomainResultKeys)
  /\ pc' = "done"
  /\ UNCHANGED <<kind, params, modes, run, msg, caches, ret, res, calls,
                 remote, hist>>

(***************************************************************************)
(* AnsibleCloudStack entity resolvers, as cs_iso calls them.               *)
(***************************************************************************)
\* get_domain, lines 443-447: the listed domain the selector matches
MatchDomain(domain, domains) ==
  FirstWith(domains,
    LAMBDA d : Lower(d["path"]) \in { Lower(domain),
                                      s_root \o <<"/">> \o Lower(domain),
                                      s_root \o Lower(domain) })

\* get_project, lines 301-305
MatchProject(project, projects) ==
  FirstWith(projects,
    LAMBDA p : Lower(project) \in { Lower(p["name"]), p["id"] })

\* get_zone, lines 365-369
MatchZone(zone, zones) ==
  FirstWith(zones, LAMBDA z : zone \in { z["name"], z["id"] })

\* get_os_type, lines 382-386
MatchOsType(os_type, os_types) ==
  FirstWith(os_types, LAMBDA o : os_type \in { o["description"], o["id"] })

\* resolver(key) on a cache that is filled or was left None
Cached(cache, key) == IF cache = <<>> THEN None ELSE _get_by_key(key, cache[1])

\* get_domain, lines 432-448
get_domain ==
  /\ kind = "iso"
  /\ pc = "main"
  /\ IF ~Truthy(params.domain)
       THEN /\ pc' = "get_account"
            /\ UNCHANGED <<self_domain, calls, msg>>
       ELSE LET found == MatchDomain(params.domain, remote.domains) IN
            /\ calls' = Append(calls, Call("listDomains", [listall |-> TRUE]))
            /\ IF found # <<>>
                 THEN /\ self_domain' = found
                      /\ pc' = "get_account"
                      /\ msg' = msg
                 ELSE /\ pc' = "failed"
                      /\ msg' = Msg("Domain '%s' not found", params.domain)
                      /\ UNCHANGED self_domain
  /\ UNCHANGED <<kind, self_hypervisor, params, modes, run, result, self_account, self_project,
                 self_zone, self_os_type, self_iso, ret, res, remote, hist>>

\* get_account, lines 409-429
get_account ==
  /\ pc = "get_account"
  /\ IF ~Truthy(params.account)
       THEN /\ pc' = "get_project"
            /\ UNCHANGED <<self_account, calls, msg>>
       ELSE IF ~Truthy(params.domain)
       THEN /\ pc' = "failed"
            /\ msg' = Msg("Account must be specified with Domain", None)
            /\ UNCHANGED <<self_account, calls>>
       ELSE LET args == [name |-> params.account,
                         domainid |-> Cached(self_domain, "id"),
                         listall |-> TRUE]
                accounts == ListAccounts(remote.accounts, args)
            IN /\ calls' = Append(calls, Call("listAccounts", args))
               /\ IF Len(accounts) > 0
                    THEN /\ self_account' = <<accounts[1]>>
                         /\ pc' = "get_project"
                         /\ msg' = msg
                    ELSE /\ pc' = "failed"
                         /\ msg' = Msg("Account '%s' not found", params.account)
                         /\ UNCHANGED self_account
  /\ UNCHANGED <<kind, self_hypervisor, params, modes, run, result, self_domain, self_project,
                 self_zone, self_os_type, self_iso, ret, res, remote, hist>>

\* get_project, lines 290-306
get_project ==
  /\ pc = "get_project"
  /\ IF ~Truthy(params.project)
       THEN /\ pc' = "get_zone"
            /\ UNCHANGED <<self_project, calls, msg>>
       ELSE LET args == [account |-> Cached(self_account, "name"),
                         domainid |-> Cached(self_domain, "id")]
                found == MatchProject(params.project, remote.projects)
            IN /\ calls' = Append(calls, Call("listProjects", args))
               /\ IF found # <<>>
                    THEN /\ self_project' = found
                         /\ pc' = "get_zone"
                         /\ msg' = msg
                    ELSE /\ pc' = "failed"
                         /\ msg' = Msg("project '%s' not found", params.project)
                         /\ UNCHANGED self_project
  /\ UNCHANGED <<kind, self_hypervisor, params, modes, run, result, self_domain, self_account,
                 self_zone, self_os_type, self_iso, ret, res, remote, hist>>

\* get_zone, lines 353-370
get_zone ==
  /\ pc = "get_zone"
  /\ calls' = Append(calls, Call("listZones", <<>>))
  /\ LET found == IF ~Truthy(params.zone) THEN <<remote.zones[1]>>
                  ELSE MatchZone(params.zone, remote.zones)
     IN IF found # <<>>
          THEN /\ self_zone' = found
               /\ pc' = "get_iso"
               /\ msg' = msg
          ELSE /\ pc' = "failed"
               /\ msg' = Msg("zone '%s' not found", params.zone)
               /\ UNCHANGED self_zone
  /\ UNCHANGED <<kind, self_hypervisor, params, modes, run, result, self_domain, self_account,
                 self_project, self_os_type, self_iso, ret, res, remote, hist>>

(***************************************************************************)
(* AnsibleCloudStackIso.                                                   *)
(***************************************************************************)
\* the filters of listIsos with the name sent whatever the checksum
ListIsosArgs_named ==
  [isready |-> params.is_ready,
   isofilter |-> params.iso_filter,
   domainid |-> Cached(self_domain, "id"),
   account |-> Cached(self_account, "name"),
   projectid |-> Cached(self_project, "id"),
   zoneid |-> Cached(self_zone, "id"),
   name |-> params.name]

\* get_iso, lines 576-587: the filters of the listIsos request
ListIsosArgs ==
  LET args == [isready |-> params.is_ready,
               isofilter |-> params.iso_filter,
               domainid |-> Cached(self_domain, "id"),
               account |-> Cached(self_account, "name"),
               projectid |-> Cached(self_project, "id"),
               zoneid |-> Cached(self_zone, "id")]
  IN IF ~Truthy(params.checksum)
       THEN ("name" :> params.name) @@ args
       ELSE args

\* get_iso, lines 590-597: the ISO taken as existing
PickIso(isos, checksum) ==
  IF Len(isos) = 0 THEN <<>>
  ELSE IF ~Truthy(checksum) THEN <<isos[1]>>
  ELSE FirstWith(isos, LAMBDA i : i["checksum"] = checksum)

\* get_iso, lines 573-598, and the branch of main() / register_iso on it
get_iso ==
  /\ pc = "get_iso"
  /\ LET args == ListIsosArgs
         found == PickIso(ListIsos(remote.isos, args), params.checksum)
     IN /\ calls' = Append(calls, Call("listIsos", args))
        /\ self_iso' = found
        /\ ret' = found
        /\ pc' = IF params.state = "absent" THEN "remove_iso"
                 ELSE IF found = <<>> THEN "get_os_type"
                 ELSE "get_result"
  /\ UNCHANGED <<kind, self_hypervisor, params, modes, run, msg, result, self_domain,
                 self_account, self_project, self_zone, self_os_type, res,
                 remote, hist>>

\* get_os_type, lines 373-387, called from register_iso line 551
get_os_type ==
  /\ pc = "get_os_type"
  /\ IF ~Truthy(params.os_type)
       THEN /\ pc' = "register_iso"
            /\ UNCHANGED <<self_os_type, calls, msg>>
       ELSE LET found == MatchOsType(params.os_type, remote.ostypes) IN
            /\ calls' = Append(calls, Call("listOsTypes", <<>>))
            /\ IF found # <<>>
                 THEN /\ self_os_type' = found
                      /\ pc' = "register_iso"
                      /\ msg' = msg
                 ELSE /\ pc' = "failed"
                      /\ msg' = Msg("OS type '%s' not found", params.os_type)
                      /\ UNCHANGED self_os_type
  /\ UNCHANGED <<kind, self_hypervisor, params, modes, run, result, self_domain, self_account,
                 self_project, self_zone, self_iso, ret, res, remote, hist>>

\* the arguments of registerIso with 'bootable' left out (False)
RegisterIsoArgs_not_bootable ==
  [zoneid |-> Cached(self_zone, "id"),
   domainid |-> Cached(self_domain, "id"),
   account |-> Cached(self_account, "name"),
   projectid |-> Cached(self_project, "id"),
   bootable |-> FALSE,
   ostypeid |-> Cached(self_os_type, "id"),
   name |-> params.name,
   displaytext |-> params.name,
   checksum |-> params.checksum,
   isdynamicallyscalable |-> params.is_dynamically_scalable,
   isfeatured |-> params.is_featured,
   ispublic |-> None,
   url |-> params.url]

\* register_iso, lines 545-562: the arguments of registerIso.  'is_public'
\* is not in the argument_spec, so params.get('is_public') is None.
RegisterIsoArgs ==
  [zoneid |-> Cached(self_zone, "id"),
   domainid |-> Cached(self_domain, "id"),
   account |-> Cached(self_account, "name"),
   projectid |-> Cached(self_project, "id"),
   bootable |-> params.bootable,
   ostypeid |-> Cached(self_os_type, "id"),
   name |-> params.name,
   displaytext |-> params.name,
   checksum |-> params.checksum,
   isdynamicallyscalable |-> params.is_dynamically_scalable,
   isfeatured |-> params.is_featured,
   ispublic |-> None,
   url |-> params.url]

\* register_iso, lines 559-570
register_iso ==
  /\ pc = "register_iso"
  /\ LET args == RegisterIsoArgs IN
     IF args["bootable"] /\ ~Truthy(args["ostypeid"])
       THEN /\ pc' = "failed"
            /\ msg' = Msg("OS type 'os_type' is requried if 'bootable=true'.", None)
            /\ UNCHANGED <<result, calls, res, remote, ret>>
     ELSE IF ~Truthy(args["url"])
       THEN /\ pc' = "failed"
            /\ msg' = Msg("URL is requried.", None)
            /\ UNCHANGED <<result, calls, res, remote, ret>>
     ELSE /\ result' = [result EXCEPT !["changed"] = TRUE]
          /\ IF ~check_mode
               THEN /\ calls' = Append(calls, Call("registerIso", args))
                    /\ \E outcome \in {"iso", "errortext", "exception"} :
                         IF outcome = "exception"
                           THEN /\ pc' = "failed"
                                /\ msg' = Msg("CloudStackException: %s", <<"e">>)
                                /\ UNCHANGED <<res, remote, ret>>
                         ELSE IF outcome = "errortext"
                           THEN /\ res' = <<FaultResponse>>
                                /\ pc' = "crashed"
                                /\ msg' = Msg("KeyError: 'iso'", None)
                                /\ UNCHANGED <<remote, ret>>
                           ELSE LET iso == RegisteredIso(args) IN
                                /\ remote' = [remote EXCEPT
                                                !.isos = Append(@, iso)]
                                /\ res' = <<[iso |-> <<iso>>]>>
                                /\ ret' = <<iso>>
                                /\ pc' = "get_result"
                                /\ msg' = msg
               ELSE /\ pc' = "get_result"
                    /\ UNCHANGED <<calls, res, remote, ret, msg>>
  /\ UNCHANGED <<kind, params, modes, run, caches, hist>>

\* remove_iso with changed set before the test of line 603
remove_iso_changed_first ==
  /\ pc = "remove_iso"
  /\ result' = [result EXCEPT !["changed"] = TRUE]
  /\ IF ret # <<>> /\ ~check_mode
       THEN LET args == [id |-> ret[1]["id"],
                         projectid |-> Cached(self_project, "id"),
                         zoneid |-> Cached(self_zone, "id")]
            IN /\ calls' = Append(calls, Call("deleteIso", args))
               /\ \E r \in JobResponses \cup {FaultResponse} :
                    /\ res' = <<r>>
                    /\ remote' = IF r = FaultResponse THEN remote
                                 ELSE [remote EXCEPT
                                         !.isos = Without(@, ret[1]["id"])]
       ELSE UNCHANGED <<calls, res, remote>>
  /\ pc' = "get_result"
  /\ UNCHANGED <<kind, params, modes, run, msg, caches, ret, hist>>

\* remove_iso, lines 601-613: the response of deleteIso is bound to 'res'
\* and never read
remove_iso ==
  /\ pc = "remove_iso"
  /\ IF ret # <<>>
       THEN /\ result' = [result EXCEPT !["changed"] = TRUE]
            /\ IF ~check_mode
                 THEN LET args == [id |-> ret[1]["id"],
                                   projectid |-> Cached(self_project, "id"),
                                   zoneid |-> Cached(self_zone, "id")]
                      IN /\ calls' = Append(calls, Call("deleteIso", args))
                         /\ \E r \in JobResponses \cup {FaultResponse} :
                              /\ res' = <<r>>
                              /\ remote' = IF r = FaultResponse THEN remote
                                           ELSE [remote EXCEPT
                                             !.isos = Without(@, ret[1]["id"])]
                 ELSE UNCHANGED <<calls, res, remote>>
       ELSE UNCHANGED <<result, calls, res, remote>>
  /\ pc' = "get_result"
  /\ UNCHANGED <<kind, params, modes, run, msg, caches, ret, hist>>

\* AnsibleCloudStackIso.get_result, lines 616-638
IsoResultKeys ==
  { <<"displaytext", "displaytext">>, <<"name", "name">>,
    <<"zonename", "zone">>, <<"checksum", "checksum">>,
    <<"status", "status">>, <<"isready", "is_ready">>,
    <<"created", "created">>, <<"project", "project">>,
    <<"domain", "domain">>, <<"account", "account">> }

\* main(), lines 682-687: get_result and exit_json
Iso_get_result ==
  /\ kind = "iso"
  /\ pc = "get_result"
  /\ result' = get_result(ret, IsoResultKeys)
  /\ pc' = "done"
  /\ UNCHANGED <<kind, params, modes, run, msg, caches, ret, res, calls,
                 remote, hist>>

(***************************************************************************)
(* The session: a second invocation with the same parameters.              *)
(***************************************************************************)
NoHist == [pc |-> "none", result |-> [changed |-> FALSE], calls |-> <<>>,
           ret |-> <<>>, remote0 |-> <<>>]

\* the state of a fresh AnsibleCloudStack object, lines 111-130
NextRun ==
  /\ kind \in {"domain", "iso"}
  /\ run = 1
  /\ pc \in Terminal
  /\ run' = 2
  /\ hist' = [pc |-> pc, result |-> result, calls |-> calls, ret |-> ret,
              remote0 |-> hist.remote0]
  /\ pc' = "main"
  /\ msg' = NoMsg
  /\ result' = [changed |-> FALSE]
  /\ self_domain' = <<>> /\ self_account' = <<>> /\ self_project' = <<>>
  /\ self_zone' = <<>> /\ self_os_type' = <<>> /\ self_iso' = <<>>
  /\ self_hypervisor' = None
  /\ ret' = <<>> /\ res' = <<>> /\ calls' = <<>>
  /\ UNCHANGED <<kind, params, modes, remote>>

\* check mode of the two invocations: live then live, or dry run then live
ModePairs == { <<FALSE, FALSE>>, <<TRUE, FALSE>> }

Cloud(domains, isos) ==
  [domains |-> domains, isos |-> isos, zones |-> <<Zone1, Zone2>>,
   ostypes |-> <<OsType1>>, accounts |-> <<Account1>>,
   projects |-> <<Project1>>, hypervisors |-> <<Hypervisor1, Hypervisor2>>]

DomainRemotes == { Cloud(d, <<>>) : d \in DomainLists }

IsoRemotes == { Cloud(<<DomRoot, DomA>>, i) : i \in IsoLists }

Init ==
  /\ kind \in {"domain", "iso"}
  /\ params \in (IF kind = "domain" THEN DomainParams ELSE IsoParams)
  /\ remote \in (IF kind = "domain" THEN DomainRemotes ELSE IsoRemotes)
  /\ modes \in ModePairs
  /\ run = 1
  /\ pc = "main"
  /\ msg = NoMsg
  /\ result = [changed |-> FALSE]
  /\ self_domain = <<>> /\ self_account = <<>> /\ self_project = <<>>
  /\ self_zone = <<>> /\ self_os_type = <<>> /\ self_iso = <<>>
  /\ self_hypervisor = None
  /\ ret = <<>> /\ res = <<>> /\ calls = <<>>
  /\ hist = [NoHist EXCEPT !.remote0 = <<remote>>]

Next ==
  \/ Domain_get_domain
  \/ _create_domain
  \/ _update_domain
  \/ absent_domain
  \/ Domain_get_result
  \/ get_domain
  \/ get_account
  \/ get_project
  \/ get_zone
  \/ get_iso
  \/ get_os_type
  \/ register_iso
  \/ remove_iso
  \/ Iso_get_result
  \/ NextRun

Spec == Init /\ [][Next]_vars

(***************************************************************************)
(* Tag reconciliation: AnsibleCloudStack.ensure_tags, called twice in a    *)
(* row on one resource.  Neither main() calls it; it is run here on its    *)
(* own.  The 'tags' parameter is a list of {key, value} dicts, the only    *)
(* shape _create_tags (lines 386-391) can read; None is <<>> and a list l  *)
(* is <<l>>.                                                               *)
(***************************************************************************)
TagKeys == {<<"k", "1">>, <<"k", "2">>}
TagValues == {<<"v", "1">>, <<"v", "2">>}
Tag(k, v) == [key |-> k, value |-> v]

\* the lists of tags with pairwise different keys
TagLists ==
  {<<>>}
    \cup { <<Tag(k, v)>> : k \in TagKeys, v \in TagValues }
    \cup { <<Tag(k[1], v[1]), Tag(k[2], v[2])>> :
             k \in {x \in TagKeys \X TagKeys : x[1] # x[2]},
             v \in TagValues \X TagValues }

\* a resource as it was listed, carrying its tags or no 'tags' key
TaggedResource(tags) == [id |-> <<"i", "1">>, tags |-> tags]
UntaggedResource == [id |-> <<"i", "1">>]

\* "x == d" for a str x and a dict d
StrEqualsDict(x, d) == FALSE

\* _delete_tags, line 369: "existing_tag['key'] in tags" on the list of
\* dicts compares the key, a str, with each dict of the list
KeyInTags(key, tags) ==
  \E i \in 1..Len(tags) : StrEqualsDict(key, tags[i])

\* _delete_tags, lines 367-373: the else-branch of line 372 collects the
\* existing tags whose key is not "in tags"
tags_to_delete(existing_tags, tags) ==
  SelectSeq(existing_tags, LAMBDA e : ~KeyInTags(e["key"], tags))

\* _create_tags, lines 385-391
tags_to_create(tags) ==
  [i \in 1..Len(tags) |-> Tag(tags[i]["key"], tags[i]["value"])]

\* the tags of the resource after deleteTags(tags)
TagsWithout(l, gone) ==
  SelectSeq(l, LAMBDA t : \A i \in 1..Len(gone) : gone[i]["key"] # t["key"])

\* ensure_tags, lines 402-408
ensure_tags ==
  /\ kind = "tags"
  /\ pc = "ensure_tags"
  /\ IF params.resource_type = None \/ ret = <<>>
       THEN /\ pc' = "failed"
            /\ msg' = Msg("Error: Missing resource or resource_type for tags.",
                          None)
       ELSE /\ pc' = IF "tags" \in DOMAIN ret[1] /\ params.tags # <<>>
                       THEN "_delete_tags" ELSE "returned"
            /\ msg' = msg
  /\ UNCHANGED <<kind, params, modes, run, result, caches, ret, res, calls,
                 remote, hist>>

\* _delete_tags, lines 365-381.  Line 370 reads the undefined name 'key'
\* (NameError) for an existing tag whose key is "in tags".
_delete_tags ==
  /\ pc = "_delete_tags"
  /\ LET tags == params.tags[1]
         existing_tags == ret[1]["tags"]
         to_delete == tags_to_delete(existing_tags, tags)
     IN IF \E i \in 1..Len(existing_tags) :
               KeyInTags(existing_tags[i]["key"], tags)
          THEN /\ pc' = "crashed"
               /\ msg' = Msg("NameError: global name 'key' is not defined", None)
               /\ UNCHANGED <<result, calls, remote>>
          ELSE /\ pc' = "_create_tags"
               /\ msg' = msg
               /\ IF to_delete # <<>>
                    THEN /\ result' = [result EXCEPT !["changed"] = TRUE]
                         /\ IF ~check_mode
                              THEN /\ calls' = Append(calls,
                                         Call("deleteTags",
                                              [resourceids |-> ret[1]["id"],
                                               resourcetype |-> params.resource_type,
                                               tags |-> to_delete]))
                                   /\ remote' = [remote EXCEPT
                                         !.tags = TagsWithout(@, to_delete)]
                              ELSE UNCHANGED <<calls, remote>>
                    ELSE UNCHANGED <<result, calls, remote>>
  /\ UNCHANGED <<kind, params, modes, run, caches, ret, res, hist>>

\* _create_tags with the tags re-read before createTags is issued
_create_tags_reread_first ==
  /\ pc = "_create_tags"
  /\ LET to_create == tags_to_create(params.tags[1])
         reread == Append(calls, Call("listTags", [resourceid |-> ret[1]["id"]]))
     IN IF to_create # <<>>
          THEN /\ result' = [result EXCEPT !["changed"] = TRUE]
               /\ IF ~check_mode
                    THEN /\ calls' = Append(reread,
                               Call("createTags",
                                    [resourceids |-> ret[1]["id"],
                                     resourcetype |-> params.resource_type,
                                     tags |-> to_create]))
                         /\ remote' = [remote EXCEPT !.tags = @ \o to_create]
                    ELSE UNCHANGED <<calls, remote>>
          ELSE UNCHANGED <<result, calls, remote>>
  /\ pc' = "get_tags"
  /\ UNCHANGED <<kind, params, modes, run, msg, caches, ret, res, hist>>

\* _create_tags, lines 384-399
_create_tags ==
  /\ pc = "_create_tags"
  /\ LET to_create == tags_to_create(params.tags[1])
     IN IF to_create # <<>>
          THEN /\ result' = [result EXCEPT !["changed"] = TRUE]
               /\ IF ~check_mode
                    THEN /\ calls' = Append(calls,
                               Call("createTags",
                                    [resourceids |-> ret[1]["id"],
                                     resourcetype |-> params.resource_type,
                                     tags |-> to_create]))
                         /\ remote' = [remote EXCEPT !.tags = @ \o to_create]
                    ELSE UNCHANGED <<calls, remote>>
          ELSE UNCHANGED <<result, calls, remote>>
  /\ pc' = "get_tags"
  /\ UNCHANGED <<kind, params, modes, run, msg, caches, ret, res, hist>>

\* get_tags, lines 358-362, and the assignment and return of lines 411-412
get_tags ==
  /\ pc = "get_tags"
  /\ calls' = Append(calls, Call("listTags", [resourceid |-> ret[1]["id"]]))
  /\ ret' = <<[ret[1] EXCEPT !["tags"] = remote.tags]>>
  /\ pc' = "returned"
  /\ UNCHANGED <<kind, params, modes, run, msg, result, caches, res, remote,
                 hist>>

\* the caller calls ensure_tags again on the resource it got back
ensure_tags_again ==
  /\ kind = "tags"
  /\ run = 1
  /\ pc = "returned"
  /\ run' = 2
  /\ hist' = [pc |-> pc, result |-> result, calls |-> calls, ret |-> ret,
              remote0 |-> hist.remote0]
  /\ pc' = "ensure_tags"
  /\ result' = [changed |-> FALSE]
  /\ calls' = <<>>
  /\ UNCHANGED <<kind, params, modes, msg, caches, ret, res, remote>>

TagParams ==
  [tags : {<<>>} \cup {<<l>> : l \in TagLists},
   resource_type : {None, <<"I", "S", "O">>}]

InitTags ==
  /\ kind = "tags"
  /\ params \in TagParams
  /\ modes \in ModePairs
  /\ remote \in { [tags |-> l] : l \in TagLists }
  /\ ret \in { <<>>, <<UntaggedResource>>, <<TaggedResource(remote.tags)>> }
  /\ run = 1
  /\ pc = "ensure_tags"
  /\ msg = NoMsg
  /\ result = [changed |-> FALSE]
  /\ self_domain = <<>> /\ self_account = <<>> /\ self_project = <<>>
  /\ self_zone = <<>> /\ self_os_type = <<>> /\ self_iso = <<>>
  /\ self_hypervisor = None
  /\ res = <<>> /\ calls = <<>>
  /\ hist = [NoHist EXCEPT !.remote0 = <<remote>>]

NextTags ==
  \/ ensure_tags
  \/ _delete_tags
  \/ _create_tags
  \/ get_tags
  \/ ensure_tags_again

SpecTags == InitTags /\ [][NextTags]_vars

\* the invocations of the two modules together with the runs of ensure_tags:
\* every place where a mutating call is issued
InitMutating == Init \/ InitTags

NextMutating == Next \/ NextTags

SpecMutating == InitMutating /\ [][NextMutating]_vars

(***************************************************************************)
(* The job poller: AnsibleCloudStack.poll_job, run on its own on a job     *)
(* that answers 'pending' a number of times and then gives its final       *)
(* answer for ever.  The requested key is <<>> for None and <<k>> for k.   *)
(***************************************************************************)
MaxPending == 2
MaxPolls == MaxPending + 2

\* the answers of queryAsyncJobResult
PendingResponse == [jobstatus |-> 0]
FinalResponses ==
  { [jobstatus |-> 1, jobresult |-> [domain |-> [id |-> <<"d", "1">>]]],
    [jobstatus |-> 1, jobresult |-> [success |-> <<"t">>]],
    [jobstatus |-> 2, jobresult |-> [errorcode |-> <<"5">>,
                                     errortext |-> <<"e">>]],
    [jobstatus |-> 1],
    [jobstatus |-> 2] }

PollKeys == {<<>>, <<"domain">>, <<"iso">>}

\* lines 435-436 with the return of line 439, as the payload-returning
\* variant
poll_job_return_payload(job, key, jobresult) ==
  IF key # <<>> /\ key[1] \in DOMAIN jobresult
    THEN jobresult[key[1]]
    ELSE jobresult

\* lines 435-436 with the return of line 439: 'job' is rebound only when
\* the key is requested and present
poll_job_return(job, key, jobresult) ==
  IF key # <<>> /\ key[1] \in DOMAIN jobresult
    THEN jobresult[key[1]]
    ELSE job

\* poll_job, line 429 and, without a job id, line 439
poll_job ==
  /\ kind = "poll"
  /\ pc = "poll_job"
  /\ IF "jobid" \in DOMAIN params.job
       THEN pc' = "queryAsyncJobResult" /\ ret' = ret
       ELSE pc' = "returned" /\ ret' = <<params.job>>
  /\ UNCHANGED <<kind, params, modes, run, msg, result, caches, res, calls,
                 remote, hist>>

\* one turn of the loop, lines 431-437; the log of calls keeps the first
\* MaxPolls queries
queryAsyncJobResult ==
  /\ pc = "queryAsyncJobResult"
  /\ LET r == IF remote.pending > 0 THEN PendingResponse ELSE remote.final
     IN /\ res' = <<r>>
        /\ remote' = [remote EXCEPT
                        !.pending = IF @ > 0 THEN @ - 1 ELSE 0]
        /\ calls' = IF Len(calls) < MaxPolls
                      THEN Append(calls, Call("queryAsyncJobResult",
                                       [jobid |-> params.job["jobid"]]))
                      ELSE calls
        /\ IF r["jobstatus"] # 0 /\ "jobresult" \in DOMAIN r
             THEN IF "errortext" \in DOMAIN r["jobresult"]
                    THEN /\ pc' = "failed"
                         /\ msg' = Msg("Failed: '%s'",
                                       r["jobresult"]["errortext"])
                         /\ ret' = ret
                    ELSE /\ pc' = "returned"
                         /\ msg' = msg
                         /\ ret' = <<poll_job_return(params.job, params.key,
                                                     r["jobresult"])>>
             ELSE /\ pc' = "sleep"
                  /\ UNCHANGED <<msg, ret>>
  /\ UNCHANGED <<kind, params, modes, run, result, caches, hist>>

\* line 438
sleep ==
  /\ pc = "sleep"
  /\ pc' = "queryAsyncJobResult"
  /\ UNCHANGED <<kind, params, modes, run, msg, result, caches, ret, res,
                 calls, remote, hist>>

InitPoll ==
  /\ kind = "poll"
  /\ params \in [job : JobResponses, key : PollKeys]
  /\ remote \in [pending : 0..MaxPending, final : FinalResponses]
  /\ modes = <<FALSE, FALSE>>
  /\ run = 1
  /\ pc = "poll_job"
  /\ msg = NoMsg
  /\ result = [changed |-> FALSE]
  /\ self_domain = <<>> /\ self_account = <<>> /\ self_project = <<>>
  /\ self_zone = <<>> /\ self_os_type = <<>> /\ self_iso = <<>>
  /\ self_hypervisor = None
  /\ ret = <<>> /\ res = <<>> /\ calls = <<>>
  /\ hist = [NoHist EXCEPT !.remote0 = <<remote>>]

NextPoll ==
  \/ poll_job
  \/ queryAsyncJobResult
  \/ sleep

SpecPoll == InitPoll /\ [][NextPoll]_vars

\* the interpreter keeps executing the loop
SpecPollFair == SpecPoll /\ WF_vars(NextPoll)

(***************************************************************************)
(* The entity resolvers of AnsibleCloudStack on their own: a caller that   *)
(* calls get_domain, get_account, get_project, get_zone, get_os_type and   *)
(* get_hypervisor in any order and any number of times on one object.      *)
(* A resolver is an operator on the record st of the object's caches, the  *)
(* log of calls and the outcome; a resolver that calls another one does so *)
(* inside its own step.  Returned values are tagged with their type; the   *)
(* requested key is <<>> for None and <<k>> for k.                         *)
(***************************************************************************)
VNone == [none |-> TRUE]
VStr(s) == [str |-> s]
VDict(d) == [dict |-> d]

\* the str a resolver returned, or None
StrOf(v) == IF "str" \in DOMAIN v THEN v["str"] ELSE None

ResolverKeys == {<<>>, <<"id">>, <<"name">>}

\* fail_json(msg=...) that goes on and returns None
Fail_returns_none(st, fmt, arg) == [st EXCEPT !.value = VNone]

\* fail_json(msg=fmt % arg): the invocation ends
Fail(st, fmt, arg) == [st EXCEPT !.pc = "failed", !.msg = Msg(fmt, arg)]

\* _get_by_key, lines 282-287, on a cache d that holds a dict or is None;
\* "key in None" raises TypeError
ByKey(st, key, d) ==
  IF key # <<>>
    THEN IF d = <<>>
           THEN [st EXCEPT !.pc = "crashed",
                   !.msg = Msg("TypeError: argument of type 'NoneType' is not iterable",
                               None)]
         ELSE IF key[1] \in DOMAIN d[1]
           THEN [st EXCEPT !.value = VStr(d[1][key[1]])]
         ELSE Fail(st, "Something went wrong: %s not found", key)
    ELSE [st EXCEPT !.value = IF d = <<>> THEN VNone ELSE VDict(d[1])]

Listed(st, api, args) == [st EXCEPT !.calls = Append(@, Call(api, args))]

\* get_domain, lines 432-448
Resolver_get_domain(st, key) ==
  IF st.domain # <<>> THEN ByKey(st, key, st.domain)
  ELSE IF ~Truthy(params.domain) THEN [st EXCEPT !.value = VNone]
  ELSE LET st1 == Listed(st, "listDomains", [listall |-> TRUE])
           found == MatchDomain(params.domain, remote.domains)
       IN IF found # <<>>
            THEN ByKey([st1 EXCEPT !.domain = found], key, found)
            ELSE Fail(st1, "Domain '%s' not found", params.domain)

\* get_account, lines 409-429
Resolver_get_account(st, key) ==
  IF st.account # <<>> THEN ByKey(st, key, st.account)
  ELSE IF ~Truthy(params.account) THEN [st EXCEPT !.value = VNone]
  ELSE IF ~Truthy(params.domain)
    THEN Fail(st, "Account must be specified with Domain", None)
  ELSE LET st1 == Resolver_get_domain(st, <<"id">>) IN
       IF st1.pc # "ready" THEN st1
       ELSE LET args == [name |-> params.account,
                         domainid |-> StrOf(st1.value),
                         listall |-> TRUE]
                accounts == ListAccounts(remote.accounts, args)
                st2 == Listed(st1, "listAccounts", args)
            IN IF Len(accounts) > 0
                 THEN ByKey([st2 EXCEPT !.account = <<accounts[1]>>], key,
                            <<accounts[1]>>)
                 ELSE Fail(st2, "Account '%s' not found", params.account)

\* get_project, lines 290-306
Resolver_get_project(st, key) ==
  IF st.project # <<>> THEN ByKey(st, key, st.project)
  ELSE IF ~Truthy(params.project) THEN [st EXCEPT !.value = VNone]
  ELSE LET st1 == Resolver_get_account(st, <<"name">>) IN
       IF st1.pc # "ready" THEN st1
       ELSE LET st2 == Resolver_get_domain(st1, <<"id">>) IN
       IF st2.pc # "ready" THEN st2
       ELSE LET args == [account |-> StrOf(st1.value),
                         domainid |-> StrOf(st2.value)]
                st3 == Listed(st2, "listProjects", args)
                found == MatchProject(params.project, remote.projects)
            IN IF found # <<>>
                 THEN ByKey([st3 EXCEPT !.project = found], key, found)
                 ELSE Fail(st3, "project '%s' not found", params.project)

\* get_zone, lines 353-370
Resolver_get_zone(st, key) ==
  IF st.zone # <<>> THEN ByKey(st, key, st.zone)
  ELSE LET st1 == Listed(st, "listZones", <<>>)
           found == IF ~Truthy(params.zone) THEN <<remote.zones[1]>>
                    ELSE MatchZone(params.zone, remote.zones)
       IN IF found # <<>>
            THEN ByKey([st1 EXCEPT !.zone = found], key, found)
            ELSE Fail(st1, "zone '%s' not found", params.zone)

\* get_os_type that lists before it looks at the selector
Resolver_get_os_type_lists_first(st, key) ==
  IF st.os_type # <<>> THEN ByKey(st, key, st.zone)
  ELSE LET st1 == Listed(st, "listOsTypes", <<>>)
           found == MatchOsType(params.os_type, remote.ostypes)
       IN IF ~Truthy(params.os_type) THEN [st1 EXCEPT !.value = VNone]
          ELSE IF found # <<>>
            THEN ByKey([st1 EXCEPT !.os_type = found], key, found)
            ELSE Fail(st1, "OS type '%s' not found", params.os_type)

\* get_os_type, lines 373-387; on a filled cache line 375 reads self.zone
Resolver_get_os_type(st, key) ==
  IF st.os_type # <<>> THEN ByKey(st, key, st.zone)
  ELSE IF ~Truthy(params.os_type) THEN [st EXCEPT !.value = VNone]
  ELSE LET st1 == Listed(st, "listOsTypes", <<>>)
           found == MatchOsType(params.os_type, remote.ostypes)
       IN IF found # <<>>
            THEN ByKey([st1 EXCEPT !.os_type = found], key, found)
            ELSE Fail(st1, "OS type '%s' not found", params.os_type)

\* get_hypervisor, lines 401-404
MatchHypervisor(hypervisor, hypervisors) ==
  FirstWith(hypervisors, LAMBDA h : Lower(hypervisor) = Lower(h["name"]))

\* get_hypervisor, lines 390-406: the cache holds the name
Resolver_get_hypervisor(st) ==
  IF st.hypervisor # None THEN [st EXCEPT !.value = VStr(st.hypervisor)]
  ELSE LET st1 == Listed(st, "listHypervisors", <<>>)
           found == IF ~Truthy(params.hypervisor) THEN <<remote.hypervisors[1]>>
                    ELSE MatchHypervisor(params.hypervisor, remote.hypervisors)
       IN IF found # <<>>
            THEN [st1 EXCEPT !.hypervisor = found[1]["name"],
                             !.value = VStr(found[1]["name"])]
            ELSE Fail(st1, "Hypervisor '%s' not found", params.hypervisor)

\* the object as the resolvers see it
ObjectState ==
  [domain |-> self_domain, account |-> self_account, project |-> self_project,
   zone |-> self_zone, os_type |-> self_os_type, hypervisor |-> self_hypervisor,
   calls |-> calls, pc |-> "ready", msg |-> msg, value |-> VNone]

\* the caller's call resolver(key) returned or ended the invocation with st;
\* 'cached' tells whether the resolver found its cache filled
Called(resolver, key, cached, st) ==
  /\ self_domain' = st.domain
  /\ self_account' = st.account
  /\ self_project' = st.project
  /\ self_zone' = st.zone
  /\ self_os_type' = st.os_type
  /\ self_hypervisor' = st.hypervisor
  /\ calls' = st.calls
  /\ pc' = st.pc
  /\ msg' = st.msg
  /\ ret' = IF st.pc = "ready" THEN <<st.value>> ELSE <<>>
  /\ res' = <<[resolver |-> resolver, key |-> key, cached |-> cached]>>
  /\ UNCHANGED <<kind, params, modes, run, result, self_iso, remote, hist>>

Call_get_domain ==
  /\ kind = "resolve"
  /\ pc = "ready"
  /\ \E key \in ResolverKeys :
    Called("get_domain", key, self_domain # <<>>,
           Resolver_get_domain(ObjectState, key))

Call_get_account ==
  /\ kind = "resolve"
  /\ pc = "ready"
  /\ \E key \in ResolverKeys :
    Called("get_account", key, self_account # <<>>,
           Resolver_get_account(ObjectState, key))

Call_get_project ==
  /\ kind = "resolve"
  /\ pc = "ready"
  /\ \E key \in ResolverKeys :
    Called("get_project", key, self_project # <<>>,
           Resolver_get_project(ObjectState, key))

Call_get_zone ==
  /\ kind = "resolve"
  /\ pc = "ready"
  /\ \E key \in ResolverKeys :
    Called("get_zone", key, self_zone # <<>>,
           Resolver_get_zone(ObjectState, key))

Call_get_os_type ==
  /\ kind = "resolve"
  /\ pc = "ready"
  /\ \E key \in ResolverKeys :
    Called("get_os_type", key, self_os_type # <<>>,
           Resolver_get_os_type(ObjectState, key))

Call_get_hypervisor ==
  /\ kind = "resolve"
  /\ pc = "ready"
  /\ Called("get_hypervisor", <<>>, self_hypervisor # None,
            Resolver_get_hypervisor(ObjectState))

\* the selectors of the six kinds
Selected(d, a, p, z, o, h) ==
  [domain |-> d, account |-> a, project |-> p, zone |-> z, os_type |-> o,
   hypervisor |-> h]

ResolveParams ==
  { Selected(None, None, None, None, None, None) }
    \cup { Selected(d, None, None, None, None, None) :
             d \in {s_a, <<"A">>, <<"/">> \o s_a, <<"x">>} }
    \cup { Selected(d, a, None, None, None, None) :
             d \in {None, s_a, <<"x">>},
             a \in {<<"a", "c">>, <<"A", "c">>, <<"a", "x">>} }
    \cup { Selected(None, None, p, None, None, None) :
             p \in {<<"P", "a">>, <<"p", "a">>, <<"1", "p">>, <<"p", "x">>} }
    \cup { Selected(d, <<"a", "c">>, <<"p", "a">>, None, None, None) :
             d \in {s_a, <<"x">>} }
    \cup { Selected(None, None, None, z, None, None) :
             z \in {<<"Z", "b">>, <<"z", "b">>, <<"2", "z">>, <<"Z", "x">>} }
    \cup { Selected(None, None, None, None, o, None) :
             o \in {<<"O", "a">>, <<"o", "a">>, <<"1", "o">>, <<"O", "x">>} }
    \cup { Selected(None, None, None, None, None, h) :
             h \in {<<"T", "b">>, <<"t", "b">>, <<"T", "x">>} }

InitResolve ==
  /\ kind = "resolve"
  /\ params \in ResolveParams
  /\ remote = Cloud(<<DomRoot, DomA>>, <<>>)
  /\ modes = <<FALSE, FALSE>>
  /\ run = 1
  /\ pc = "ready"
  /\ msg = NoMsg
  /\ result = [changed |-> FALSE]
  /\ self_domain = <<>> /\ self_account = <<>> /\ self_project = <<>>
  /\ self_zone = <<>> /\ self_os_type = <<>> /\ self_iso = <<>>
  /\ self_hypervisor = None
  /\ ret = <<>> /\ res = <<>> /\ calls = <<>>
  /\ hist = [NoHist EXCEPT !.remote0 = <<remote>>]

NextResolve ==
  \/ Call_get_domain
  \/ Call_get_account
  \/ Call_get_project
  \/ Call_get_zone
  \/ Call_get_os_type
  \/ Call_get_hypervisor

SpecResolve == InitResolve /\ [][NextResolve]_vars

(***************************************************************************)
(* Vocabulary of the properties.                                           *)
(***************************************************************************)
\* the mutating calls among a list of calls, in order
Mutations(c) == SelectSeq(c, LAMBDA x : x.api \in MutatingApis)

\* the calls of one API among a list of calls
CallsOf(c, api) == SelectSeq(c, LAMBDA x : x.api = api)

\* the lookup by natural key has been made in this invocation
LookedUp ==
  CallsOf(calls, IF kind = "domain" THEN "listDomains" ELSE "listIsos") # <<>>

\* the resource the lookup found, as an optional snapshot
Existing == IF kind = "domain" THEN self_domain ELSE self_iso

\* the existing domain already has the desired network domain, or none is
\* desired (cs_iso has no mutable attribute)
AlreadyMatches ==
  \/ kind = "iso"
  \/ params.network_domain = None
  \/ /\ "networkdomain" \in DOMAIN Existing[1]
     /\ Existing[1]["networkdomain"] = params.network_domain

\* C1: after a live present-reconciliation that did not end in fail_json, a
\* second one with the same parameters ends with changed = false.
C1_Idempotent ==
  (run = 2 /\ pc \in Terminal /\ params.state = "present"
     /\ modes = <<FALSE, FALSE>> /\ hist.pc # "failed")
    => (pc = "done" /\ ~result["changed"])

\* C2: an invocation in check mode issues no mutating call and leaves the
\* cloud as it was, and the live invocation started from the same cloud with
\* the same parameters ends with the same value of changed.
C2_DryRun ==
  /\ check_mode => (Mutations(calls) = <<>> /\ <<remote>> = hist.remote0)
  /\ (run = 2 /\ modes = <<TRUE, FALSE>> /\ pc \in Terminal)
       => result["changed"] = hist.result["changed"]

C2_Witness ==
  /\ run = 2 /\ modes = <<TRUE, FALSE>> /\ pc = "done"
  /\ hist.pc = "done" /\ hist.result["changed"]
  /\ Mutations(calls) # <<>>

\* C3: with state=present, when the resource found already has every
\* desired attribute, no mutating call is issued, changed stays false and
\* the invocation ends in done.
C3_NoMutationOnMatch ==
  (params.state = "present" /\ LookedUp /\ Existing # <<>> /\ AlreadyMatches)
    => /\ Mutations(calls) = <<>>
       /\ ~result["changed"]
       /\ pc \notin {"failed", "crashed"}

C3_Witness ==
  /\ kind = "domain" /\ pc = "done" /\ params.state = "present"
  /\ Existing # <<>> /\ params.network_domain # None
  /\ AlreadyMatches /\ ~result["changed"]

\* C4: a live present run of cs_domain that finds no domain at the path ends
\* having issued exactly one createDomain, named after the last segment of
\* the path and parented on the domain at the path without that segment, no
\* updateDomain or deleteDomain, and changed = true.
C4_CreateWhenAbsent ==
  (kind = "domain" /\ params.state = "present" /\ ~check_mode
     /\ LookedUp /\ Existing = <<>> /\ pc \in Terminal)
    => LET creates == CallsOf(calls, "createDomain")
           parent == _get_domain_internal(ParentPath(params.path),
                                          hist.remote0[1].domains)
       IN /\ Len(creates) = 1
          /\ <<creates[1].args["name"]>> = get_name(params.path)
          /\ parent # <<>>
          /\ creates[1].args["parentdomainid"] = parent[1]["id"]
          /\ CallsOf(calls, "updateDomain") = <<>>
          /\ CallsOf(calls, "deleteDomain") = <<>>
          /\ result["changed"]

\* the snapshot a successful create, update or register call returned
Returned ==
  IF kind = "domain" THEN <<res[1]["domain"]>> ELSE <<res[1]["iso"][1]>>

\* C5: what a present run hands to get_result is the snapshot returned by
\* the create/update/register call when one succeeded, and the snapshot
\* looked up otherwise.
C5_ReportedSnapshot ==
  (params.state = "present" /\ pc = "done")
    => ret = (IF res # <<>> THEN Returned ELSE Existing)

\* the network domain of the domain found, None when it carries none
ExistingNet ==
  IF "networkdomain" \in DOMAIN Existing[1]
    THEN Existing[1]["networkdomain"] ELSE None

\* C6: a live present run of cs_domain that finds the domain with a network
\* domain other than the non-null desired one ends having issued exactly one
\* mutating call, updateDomain(id, networkdomain), and changed = true.
C6_UpdateOnDifference ==
  (kind = "domain" /\ params.state = "present" /\ ~check_mode
     /\ LookedUp /\ Existing # <<>> /\ params.network_domain # None
     /\ ExistingNet # params.network_domain /\ pc \in Terminal)
    => /\ Mutations(calls) =
            << Call("updateDomain",
                    [id |-> Existing[1]["id"],
                     networkdomain |-> params.network_domain]) >>
       /\ result["changed"]

\* C7: with state=absent, once the lookup has found nothing, no mutating
\* call and no job poll is issued, changed stays false, the invocation does
\* not fail, and the result it ends with holds nothing but changed.
C7_AbsentNothing ==
  (params.state = "absent" /\ LookedUp /\ Existing = <<>>)
    => /\ Mutations(calls) = <<>>
       /\ CallsOf(calls, "queryAsyncJobResult") = <<>>
       /\ ~result["changed"]
       /\ pc \notin {"failed", "crashed"}
       /\ (pc = "done" => DOMAIN result = {"changed"})

C7_Witness ==
  /\ params.state = "absent" /\ pc = "done" /\ LookedUp /\ Existing = <<>>
  /\ kind = "iso" /\ remote.isos # <<>>

\* C8: a live absent run that found a resource ends having issued exactly
\* one delete call, for that resource's id, with changed = true; when the
\* response carried a job id it ends in done only after polling the job;
\* and it reports the snapshot looked up.
C8_AbsentExisting ==
  (params.state = "absent" /\ ~check_mode /\ LookedUp /\ Existing # <<>>
     /\ pc \in Terminal)
    => /\ Len(Mutations(calls)) = 1
       /\ Mutations(calls)[1].api = (IF kind = "domain" THEN "deleteDomain"
                                     ELSE "deleteIso")
       /\ Mutations(calls)[1].args["id"] = Existing[1]["id"]
       /\ result["changed"]
       /\ pc = "done"
       /\ ("jobid" \in DOMAIN res[1]
             => CallsOf(calls, "queryAsyncJobResult") # <<>>)
       /\ ret = Existing

OsTypeRequired == Msg("OS type 'os_type' is requried if 'bootable=true'.", None)

\* a present run of cs_iso with bootable=true and no os_type
BootableNoOsType ==
  /\ kind = "iso" /\ params.state = "present"
  /\ params.bootable /\ ~Truthy(params.os_type)

\* C9 as stated: such a run fails naming os_type, and no remote call at all
\* has been issued when it fails.
C9_FailsBeforeAnyCall ==
  (BootableNoOsType /\ pc \in Terminal)
    => (pc = "failed" /\ msg = OsTypeRequired /\ calls = <<>>)

\* C9 amended: such a run, once its lookup has found no ISO, fails naming
\* os_type without having issued a mutating call or set changed; the
\* listing calls of the lookup have been issued by then.
C9_FailsBeforeMutation ==
  (BootableNoOsType /\ LookedUp /\ Existing = <<>> /\ pc \in Terminal)
    => /\ pc = "failed" /\ msg = OsTypeRequired
       /\ Mutations(calls) = <<>>
       /\ ~result["changed"]
       /\ CallsOf(calls, "listZones") # <<>>

C9_Witness ==
  /\ BootableNoOsType /\ LookedUp /\ Existing = <<>>
  /\ pc = "failed" /\ msg = OsTypeRequired /\ Truthy(params.url)

\* C10: when a checksum is supplied, no listIsos request carries a name
\* filter, and the ISO taken as existing is the first ISO of the cloud with
\* that checksum, none when there is none.
C10_ChecksumLookup ==
  (kind = "iso" /\ Truthy(params.checksum))
    => /\ \A i \in 1..Len(calls) :
            calls[i].api = "listIsos" => "name" \notin DOMAIN calls[i].args
       /\ (LookedUp /\ Mutations(calls) = <<>>)
            => self_iso = FirstWith(remote.isos,
                            LAMBDA i : i["checksum"] = params.checksum)

\* an ISO of another name is taken although one of the supplied name is
\* listed first
C10_Witness ==
  /\ kind = "iso" /\ Truthy(params.checksum) /\ LookedUp
  /\ Mutations(calls) = <<>>
  /\ self_iso # <<>> /\ self_iso[1]["name"] # params.name
  /\ remote.isos[1]["name"] = params.name

\* str.upper(), used to spell a selector in another letter case
UpperChar(c) ==
  CASE c = "r" -> "R"
    [] c = "o" -> "O"
    [] c = "t" -> "T"
    [] c = "a" -> "A"
    [] c = "b" -> "B"
    [] c = "p" -> "P"
    [] c = "z" -> "Z"
    [] OTHER -> c

Upper(s) == [i \in 1..Len(s) |-> UpperChar(s[i])]

\* spellings of s that differ from it in letter case only
CaseVariants(s) == {Lower(s), Upper(s)}

\* C11: a domain path spelled in another letter case finds the same domain
\* of the same domain list as the path given, or none as well; so does the
\* 'domain' selector of the common get_domain.
C11_CaseInsensitiveKey ==
  /\ (kind = "domain" /\ LookedUp /\ Mutations(calls) = <<>>)
       => \A q \in CaseVariants(params.path) :
            _get_domain_internal(q, remote.domains) = self_domain
  /\ (kind = "iso" /\ CallsOf(calls, "listDomains") # <<>>)
       => \A q \in CaseVariants(params.domain) :
            MatchDomain(q, remote.domains) = self_domain

C11_Witness ==
  /\ kind = "domain" /\ LookedUp /\ self_domain # <<>>
  /\ params.path # Lower(params.path)
  /\ params.path # Upper(params.path)

\* the keys of a list of tags
KeysOf(tags) == { tags[i]["key"] : i \in 1..Len(tags) }

\* the elements of a list
Elems(l) == { l[i] : i \in 1..Len(l) }

\* C12: the second of two successive live calls of ensure_tags with the
\* same desired tag list, on a resource that carries tags, issues neither
\* deleteTags nor createTags and does not set changed.
C12_TagsIdempotent ==
  (kind = "tags" /\ run = 2 /\ modes = <<FALSE, FALSE>>
     /\ params.tags # <<>> /\ pc \in {"returned", "failed", "crashed"})
    => /\ pc = "returned"
       /\ CallsOf(calls, "deleteTags") = <<>>
       /\ CallsOf(calls, "createTags") = <<>>
       /\ ~result["changed"]

\* the existing tags the desired list does not hold with the same value
RemovalSet(existing_tags, tags) ==
  { e \in Elems(existing_tags) :
      \/ e["key"] \notin KeysOf(tags)
      \/ \E i \in 1..Len(tags) :
           tags[i]["key"] = e["key"] /\ tags[i]["value"] # e["value"] }

\* C20: once _delete_tags has run with a desired list, the tags it passed to
\* deleteTags are exactly the existing tags whose key is not desired or is
\* desired with another value; it issued no deleteTags when there are none.
C20_RemovalSet ==
  (kind = "tags" /\ ~check_mode
     /\ pc \in {"_create_tags", "get_tags", "crashed"})
    => LET dels == CallsOf(calls, "deleteTags")
           expected == RemovalSet(ret[1]["tags"], params.tags[1])
       IN IF expected = {} THEN dels = <<>>
          ELSE Len(dels) = 1 /\ Elems(dels[1].args["tags"]) = expected

\* the last status query gave a terminal status together with a payload
TerminalWithPayload ==
  /\ res # <<>>
  /\ res[1]["jobstatus"] # 0
  /\ "jobresult" \in DOMAIN res[1]

\* how poll_job ends on a terminal answer with a payload, given what it
\* returns when no requested sub-field is there
PollOutcome(otherwise) ==
  LET payload == res[1]["jobresult"]
  IN IF "errortext" \in DOMAIN payload
       THEN pc = "failed" /\ msg.arg = payload["errortext"]
       ELSE /\ pc = "returned"
            /\ ret = <<IF params.key # <<>> /\ params.key[1] \in DOMAIN payload
                         THEN payload[params.key[1]]
                         ELSE otherwise>>

\* polling a job id stops exactly on the first terminal answer with a
\* payload
PollStops ==
  /\ TerminalWithPayload <=> pc \in {"returned", "failed"}
  /\ TerminalWithPayload =>
       /\ remote.final = res[1]
       /\ Len(calls) = hist.remote0[1].pending + 1

\* C13 as stated: polling a job id stops on the first terminal answer with
\* a payload; an error text in it fails the invocation with that text;
\* otherwise the requested sub-field is returned when requested and
\* present, and the whole payload otherwise.
C13_PollOutcomePayload ==
  (kind = "poll" /\ "jobid" \in DOMAIN params.job /\ pc # "poll_job")
    => /\ PollStops
       /\ TerminalWithPayload => PollOutcome(res[1]["jobresult"])

\* C13 amended: ... otherwise the requested sub-field is returned when
\* requested and present, and the job handle that was passed in otherwise.
C13_PollOutcomeHandle ==
  (kind = "poll" /\ "jobid" \in DOMAIN params.job /\ pc # "poll_job")
    => /\ PollStops
       /\ TerminalWithPayload => PollOutcome(params.job)

C13_Witness ==
  /\ kind = "poll" /\ pc = "returned" /\ TerminalWithPayload
  /\ hist.remote0[1].pending > 0
  /\ params.key # <<>>
  /\ params.key[1] \notin DOMAIN res[1]["jobresult"]

\* every status query of the job gives a terminal status and no payload
NeverAnyPayload ==
  /\ kind = "poll"
  /\ "jobid" \in DOMAIN params.job
  /\ remote.pending = 0
  /\ remote.final["jobstatus"] # 0
  /\ "jobresult" \notin DOMAIN remote.final

\* C14: when every status query of the job gives a terminal status and no
\* payload, poll_job eventually returns or fails.
C14_PollEnds ==
  (NeverAnyPayload /\ pc = "poll_job") ~> (pc \in {"returned", "failed"})

\* the response to the last mutating call carries an error text
FaultSeen ==
  /\ kind \in {"domain", "iso"}
  /\ res # <<>>
  /\ "errortext" \in DOMAIN res[1]

\* C15: once the response to a mutating call carries an error text, the
\* invocation is in the failed state with a message that holds that text,
\* and the faulted call is the last remote call it issued.
C15_FaultIsFatal ==
  FaultSeen
    => /\ pc = "failed"
       /\ msg.arg = res[1]["errortext"]
       /\ calls # <<>>
       /\ calls[Len(calls)].api \in MutatingApis

\* the six entity kinds, with the listing call, the resolver, the
\* not-found message and the cache of each
Kinds == {"domain", "account", "project", "zone", "os_type", "hypervisor"}

ListApi ==
  [domain |-> "listDomains", account |-> "listAccounts",
   project |-> "listProjects", zone |-> "listZones",
   os_type |-> "listOsTypes", hypervisor |-> "listHypervisors"]

ResolverOf ==
  [domain |-> "get_domain", account |-> "get_account",
   project |-> "get_project", zone |-> "get_zone",
   os_type |-> "get_os_type", hypervisor |-> "get_hypervisor"]

NotFound ==
  [domain |-> "Domain '%s' not found", account |-> "Account '%s' not found",
   project |-> "project '%s' not found", zone |-> "zone '%s' not found",
   os_type |-> "OS type '%s' not found",
   hypervisor |-> "Hypervisor '%s' not found"]

CacheOf(k) ==
  CASE k = "domain" -> self_domain
    [] k = "account" -> self_account
    [] k = "project" -> self_project
    [] k = "zone" -> self_zone
    [] k = "os_type" -> self_os_type
    [] k = "hypervisor" -> IF self_hypervisor = None THEN <<>>
                           ELSE <<[name |-> self_hypervisor]>>

\* the listed entity the resolver of kind k takes for selector q
MatchOf(k, q) ==
  CASE k = "domain" -> MatchDomain(q, remote.domains)
    [] k = "account" ->
         IF self_domain = <<>> THEN <<>>
         ELSE LET found == ListAccounts(remote.accounts,
                             [name |-> q, domainid |-> self_domain[1]["id"]])
              IN IF found = <<>> THEN <<>> ELSE <<found[1]>>
    [] k = "project" -> MatchProject(q, remote.projects)
    [] k = "zone" -> MatchZone(q, remote.zones)
    [] k = "os_type" -> MatchOsType(q, remote.ostypes)
    [] k = "hypervisor" -> MatchHypervisor(q, remote.hypervisors)

Listing(k) == CallsOf(calls, ListApi[k])

\* C16: once the entities of a kind were listed for a supplied selector
\* that none of them matches, the invocation has failed with the not-found
\* message of that kind naming the selector, it has issued no mutating call
\* and it takes no further step.
C16_UnmatchedAborts ==
  kind = "resolve" =>
    \A k \in Kinds :
      (Truthy(params[k]) /\ Listing(k) # <<>> /\ MatchOf(k, params[k]) = <<>>)
        => /\ pc = "failed"
           /\ msg = Msg(NotFound[k], params[k])
           /\ Mutations(calls) = <<>>
           /\ ~ENABLED NextResolve

C16_Witness ==
  /\ kind = "resolve" /\ pc = "failed"
  /\ Truthy(params.account) /\ Listing("account") # <<>>
  /\ self_domain # <<>>
  /\ self_zone # <<>>

\* C17: with no selector for project, account, domain or OS type, the
\* entities of that kind are never listed and the resolver of that kind
\* returns None.
C17_NoSelectorNoListing ==
  kind = "resolve" =>
    \A k \in {"project", "account", "domain", "os_type"} :
      ~Truthy(params[k])
        => /\ Listing(k) = <<>>
           /\ (res # <<>> /\ res[1].resolver = ResolverOf[k])
                => (pc = "ready" /\ ret = <<VNone>>)

C17_Witness ==
  /\ kind = "resolve" /\ res # <<>> /\ res[1].resolver = "get_os_type"
  /\ ~Truthy(params.os_type)
  /\ calls # <<>>

\* the value resolver(key) is to return for entity e
FieldOf(key, e) == IF key = <<>> THEN VDict(e) ELSE VStr(e[key[1]])

\* C18: the entities of each kind are listed at most once, and a call of a
\* resolver that found its cache filled returned the requested field of the
\* cached entity of its kind.
C18_ResolvedOnce ==
  kind = "resolve" =>
    /\ \A k \in Kinds : Len(Listing(k)) <= 1
    /\ \A k \in Kinds :
         (res # <<>> /\ res[1].resolver = ResolverOf[k] /\ res[1].cached
            /\ CacheOf(k) # <<>>
            /\ (res[1].key = <<>> \/ res[1].key[1] \in DOMAIN CacheOf(k)[1]))
           => /\ pc = "ready"
              /\ ret = <<IF k = "hypervisor" THEN VStr(self_hypervisor)
                         ELSE FieldOf(res[1].key, CacheOf(k)[1])>>

\* the name an entity of kind k is selected by
NameOf(k, e) == IF k = "os_type" THEN e["description"] ELSE e["name"]

ListedOf(k) ==
  CASE k = "project" -> remote.projects
    [] k = "zone" -> remote.zones
    [] k = "os_type" -> remote.ostypes
    [] k = "hypervisor" -> remote.hypervisors

\* the first listed entity whose name equals q ignoring letter case or
\* whose id equals q
NamedOrId(k, q) ==
  FirstWith(ListedOf(k),
    LAMBDA e : \/ Lower(q) = Lower(NameOf(k, e))
               \/ ("id" \in DOMAIN e /\ q = e["id"]))

\* C19: once the projects, zones, OS types or hypervisors were listed for a
\* supplied selector, the entity resolved is the first listed one whose
\* name equals the selector ignoring letter case or whose id equals it, and
\* every spelling of a name in another letter case selects that same entity.
C19_MatchingRule ==
  kind = "resolve" =>
    \A k \in {"project", "zone", "os_type", "hypervisor"} :
      (Truthy(params[k]) /\ Listing(k) # <<>>)
        => LET expected == NamedOrId(k, params[k])
           IN /\ CacheOf(k) = expected
              /\ (expected # <<>>
                    /\ Lower(params[k]) = Lower(NameOf(k, expected[1])))
                   => \A q \in CaseVariants(params[k]) :
                        MatchOf(k, q) = expected

\* every call of api a in the log precedes every call of api b
Precedes(c, a, b) ==
  \A i, j \in 1..Len(c) : (c[i].api = a /\ c[j].api = b) => i < j

\* C21: in a run of ensure_tags deleteTags is issued before createTags and
\* the tags are re-read (listTags) only after both; with a null desired tag
\* list neither is issued and changed is not set.
C21_TagCallOrder ==
  kind = "tags" =>
    /\ Precedes(calls, "deleteTags", "createTags")
    /\ Precedes(calls, "deleteTags", "listTags")
    /\ Precedes(calls, "createTags", "listTags")
    /\ params.tags = <<>>
         => /\ Mutations(calls) = <<>> /\ ~result["changed"]
            /\ Mutations(hist.calls) = <<>> /\ ~hist.result["changed"]

C21_Witness ==
  /\ kind = "tags" /\ pc = "returned"
  /\ CallsOf(calls, "deleteTags") # <<>>
  /\ CallsOf(calls, "createTags") # <<>>
  /\ CallsOf(calls, "listTags") # <<>>

\* C22: whenever a mutating call has been issued changed is true, and
\* within one invocation (one run of ensure_tags) changed never goes from
\* true back to false.
C22_MutationImpliesChanged ==
  /\ [](Mutations(calls) # <<>> => result["changed"])
  /\ [][(result["changed"] /\ run' = run) => result'["changed"]]_vars

C22_Witness ==
  /\ kind = "iso" /\ pc = "done"
  /\ CallsOf(calls, "registerIso") # <<>>
  /\ result["changed"]
  /\ DOMAIN result # {"changed"}

====
